---- MODULE Spec2Model ----
(***************************************************************************)
(* Withdrawal management application (src/app.py): a Flask application     *)
(* over four SQLAlchemy tables (users, withdrawals, archived_withdrawals,  *)
(* audit_logs) and the signed session cookie of a browser.  The server     *)
(* handles requests concurrently: bulk_delete between its query and its    *)
(* commit, setup between its count and its INSERT, and users_create        *)
(* between its two commits are requests in flight, and any other request   *)
(* can be served in between.  toggle_status, upload, users_role and        *)
(* users_resetpw are taken as one step each.                               *)
(*                                                                         *)
(* A text value is a sequence of tokens: a token is one character (" ",    *)
(* ",", a digit) or one word standing for a run of other characters.       *)
(* NULL is Null in numeric and DateTime columns and NullText in string     *)
(* columns.  The statuses are written in ASCII: "kanryo" is the string     *)
(* '完了' (completed), "sashimodoshi" is '差し戻し' (returned) and         *)
(* "horyu" is '保留', a string that is neither.                            *)
(***************************************************************************)
EXTENDS Integers, Sequences, FiniteSets, Bags, TLC

(* ------------------------------ bounds --------------------------------- *)
\* Number of requests that read the clock (datetime.utcnow) and write.
MaxTime == 2
\* The same, when one administrator works alone.
MaxAdminTime == 3
\* Largest row id a request names.
MaxId == 2
\* Requests in flight at once.
MaxInFlight == 2
\* Ticks of the clock in one calendar day.
TicksPerDay == 2
\* What is typed into the e-mail and password fields.
RawEmails == {<<"A@x", " ">>, <<"b@x">>}
\* Passwords typed at login, passwords given to a new user, passwords set by
\* a reset.
Passwords == {"pw1", "pw2"}
NewPasswords == {"pw1"}
ResetPasswords == {"pw2"}
Roles == {"admin", "worker"}

(* ------------------------------ values --------------------------------- *)
Null == -1
NullText == <<"NULL">>
\* A DateTime read from a CSV cell is <<day, time of day>>; NULL is NullDate.
NullDate == <<Null, "NULL">>
Kanryo == <<"kanryo">>
Sashimodoshi == <<"sashimodoshi">>
Horyu == <<"horyu">>
Unset == <<>>
\* What a request may send as the form field "next" of /toggle_status.
NextValues == {Kanryo, Sashimodoshi, Horyu}

Anonymous == [email |-> <<>>, role |-> ""]

Digits == {"0", "1", "2", "3", "4", "5", "6", "7", "8", "9"}

DigitValue(ch) ==
  CASE ch = "0" -> 0 [] ch = "1" -> 1 [] ch = "2" -> 2 [] ch = "3" -> 3
    [] ch = "4" -> 4 [] ch = "5" -> 5 [] ch = "6" -> 6 [] ch = "7" -> 7
    [] ch = "8" -> 8 [] ch = "9" -> 9

\* str.strip(): leading and trailing white space removed.
RECURSIVE StripLeft(_)
StripLeft(t) ==
  IF t # <<>> /\ Head(t) = " " THEN StripLeft(Tail(t)) ELSE t

RECURSIVE StripRight(_)
StripRight(t) ==
  IF t # <<>> /\ t[Len(t)] = " " THEN StripRight(SubSeq(t, 1, Len(t) - 1)) ELSE t

Strip(t) == StripRight(StripLeft(t))

\* str.lower() on the words of the input alphabet.
LowerToken(ch) == IF ch = "A@x" THEN "a@x" ELSE ch

Lower(t) == [i \in 1..Len(t) |-> LowerToken(t[i])]

\* email.lower().strip()
NormalizeEmail(raw) == Strip(Lower(raw))

\* str.replace(",", "")
RECURSIVE RemoveCommas(_)
RemoveCommas(t) ==
  IF t = <<>> THEN <<>>
  ELSE IF Head(t) = "," THEN RemoveCommas(Tail(t))
  ELSE <<Head(t)>> \o RemoveCommas(Tail(t))

RECURSIVE DigitsValue(_)
DigitsValue(t) ==
  IF t = <<>> THEN 0 ELSE 10 * DigitsValue(SubSeq(t, 1, Len(t) - 1)) + DigitValue(t[Len(t)])

\* float(s): white space around the number is accepted, anything else that is
\* not a digit string raises ValueError (None here).
ToFloat(t) ==
  LET s == Strip(t)
  IN  IF s # <<>> /\ \A i \in 1..Len(s) : s[i] \in Digits THEN DigitsValue(s) ELSE Null

parse_float(x) ==
  IF Strip(x) = <<>> THEN Null ELSE ToFloat(RemoveCommas(x))

\* The calendar day of the clock.
Today(t) == t \div TicksPerDay

\* parse_dt(x) at the time t: dateutil's parse fills what the text leaves out
\* from today's date (datetime.now() at midnight), so a time of day alone is
\* that time today; a text it cannot read, or none, gives None.
parse_dt(x, t) ==
  IF x = <<>> THEN NullDate
  ELSE IF x = <<"2024-01-05">> THEN <<0, "00:00">>
  ELSE IF x = <<"10:30">> THEN <<Today(t), "10:30">>
  ELSE NullDate

\* werkzeug's generate_password_hash / check_password_hash.
generate_password_hash(pw) == <<"hash", pw>>

verify(u, pw) == u.password_hash = generate_password_hash(pw)

VARIABLES
  users,        \* table users
  withdrawals,  \* table withdrawals
  archive,      \* table archived_withdrawals, in id order
  audit,        \* table audit_logs, in id order
  session,      \* session["user"], the browser's cookie
  inflight,     \* the requests in flight (a bag)
  now           \* the clock (datetime.utcnow)

vars == <<users, withdrawals, archive, audit, session, inflight, now>>
tables == <<users, withdrawals, archive, audit>>

Init ==
  /\ users = {}
  /\ withdrawals = {}
  /\ archive = <<>>
  /\ audit = <<>>
  /\ session = Anonymous
  /\ inflight = EmptyBag
  /\ now = 0

(* Every handler takes the response it sends as its last parameter, rsp.   *)
Redirect(to) == <<"redirect", to>>
Page(name) == <<"200", name>>
Forbidden == <<"403", "forbidden">>
ServerError == <<"500", "IntegrityError">>
JsonFail == <<"json", "ok:false", "">>
JsonNoIds == <<"json", "ok:false", "no ids">>
JsonStatus(next) == <<"json", "ok:true", "status", next>>
JsonDeleted(n) == <<"json", "ok:true", "deleted", "count", n>>
\* The handler has not answered yet.
Pending == <<"pending", "">>

AuditLog(user_email, action, target, detail) ==
  [user_email |-> user_email, action |-> action, target |-> target, detail |-> detail]

Begin(r) == inflight' = inflight (+) SetToBag({r})

InFlight(r) == BagIn(r, inflight)

End(r) == inflight' = inflight (-) SetToBag({r})

\* A decorator that lets every request pass, which login_required is not.
no_login == TRUE

\* login_required: no session["user"] means a redirect to the login page.
login_required == session # Anonymous

\* A decorator that lets every role pass, which require_role is not.
any_role == session.role \in Roles \cup {""}

\* require_role("admin")
require_role == session.role = "admin"

(* ------------------------------ login ---------------------------------- *)
login(raw, pw, rsp) ==
  LET email == NormalizeEmail(raw)
      found == {u \in users : u.email = email}
  IN  /\ \/ /\ \E u \in found :
                 /\ verify(u, pw)
                 /\ session' = [email |-> u.email, role |-> u.role]
            /\ rsp = Redirect("index")
         \/ /\ ~ \E u \in found : verify(u, pw)
            /\ session' = session
            /\ rsp = Page("login")
      /\ UNCHANGED <<users, withdrawals, archive, audit, inflight, now>>

logout(rsp) ==
  /\ \/ /\ ~ login_required
        /\ session' = session
     \/ /\ login_required
        /\ session' = Anonymous
  /\ rsp = Redirect("login")
  /\ UNCHANGED <<users, withdrawals, archive, audit, inflight, now>>

(* ------------------------------ setup ---------------------------------- *)
\* User.create: one INSERT and its commit; the e-mail column is unique.
UserCreate(table, raw, pw, role) ==
  table \cup {[id |-> Cardinality(table) + 1,
               email |-> NormalizeEmail(raw),
               role |-> role,
               password_hash |-> generate_password_hash(pw)]}

EmailTaken(raw) == \E u \in users : u.email = NormalizeEmail(raw)

\* setup, up to the count of the users table.
setup(method, raw, pw, rsp) ==
  /\ \/ /\ Cardinality(users) > 0
        /\ rsp = Redirect("login")
        /\ UNCHANGED inflight
     \/ /\ Cardinality(users) = 0
        /\ method = "GET"
        /\ rsp = Page("setup")
        /\ UNCHANGED inflight
     \/ /\ Cardinality(users) = 0
        /\ method = "POST"
        /\ rsp = Pending
        /\ Begin([op |-> "setup", email |-> raw, password |-> pw])
  /\ UNCHANGED <<users, withdrawals, archive, audit, session, now>>

\* setup, the User.create call that follows the count.
setup_create(r, rsp) ==
  /\ InFlight(r)
  /\ r.op = "setup"
  /\ \/ /\ EmailTaken(r.email)
        /\ users' = users
        /\ rsp = ServerError
     \/ /\ ~ EmailTaken(r.email)
        /\ users' = UserCreate(users, r.email, r.password, "admin")
        /\ rsp = Redirect("login")
  /\ End(r)
  /\ UNCHANGED <<withdrawals, archive, audit, session, now>>

(* ------------------------------ reads ---------------------------------- *)
index(rsp) ==
  /\ \/ /\ ~ login_required
        /\ rsp = Redirect("login")
     \/ /\ login_required
        /\ rsp = Page("index")
  /\ UNCHANGED vars

export_csv(rsp) ==
  /\ \/ /\ ~ login_required
        /\ rsp = Redirect("login")
     \/ /\ login_required
        /\ rsp = Page("withdrawals.csv")
  /\ UNCHANGED vars

users_page(rsp) ==
  /\ \/ /\ ~ login_required
        /\ rsp = Redirect("login")
     \/ /\ login_required
        /\ ~ require_role
        /\ rsp = Forbidden
     \/ /\ login_required
        /\ require_role
        /\ rsp = Page("users")
  /\ UNCHANGED vars

(* --------------------------- toggle_status ----------------------------- *)
\* A guarded status update, which the handler is not: a status once decided
\* (completed or returned) would stay.
GuardedStatusUpdate(obj, next, email, t) ==
  IF obj.status \in {Kanryo, Sashimodoshi} THEN obj
  ELSE [obj EXCEPT !.status = next,
                   !.last_changed_by = email,
                   !.last_changed_at = t,
                   !.updated_at = t]

\* The assignments of toggle_status to the row it loaded.
StatusUpdate(obj, next, email, t) ==
  [obj EXCEPT !.status = next,
              !.last_changed_by = email,
              !.last_changed_at = t,
              !.updated_at = t]

\* A handler that writes the audit entry before it looks the record up, which
\* toggle_status does not: a request for a record that is not there would
\* leave an entry.
audited_toggle_status(id, next, rsp) ==
  /\ \/ /\ ~ login_required
        /\ rsp = Redirect("login")
        /\ UNCHANGED <<withdrawals, audit, now>>
     \/ /\ login_required
        /\ ~ \E w \in withdrawals : w.id = id
        /\ audit' = Append(audit, AuditLog(session.email, "status_update",
                                           <<"withdrawal", id>>, <<"to", next>>))
        /\ rsp = JsonFail
        /\ UNCHANGED <<withdrawals, now>>
     \/ /\ login_required
        /\ \E obj \in withdrawals :
             /\ obj.id = id
             /\ withdrawals' = (withdrawals \ {obj})
                                 \cup {StatusUpdate(obj, next, session.email, now + 1)}
        /\ audit' = Append(audit, AuditLog(session.email, "status_update",
                                           <<"withdrawal", id>>, <<"to", next>>))
        /\ now' = now + 1
        /\ rsp = JsonStatus(next)
  /\ UNCHANGED <<users, archive, session, inflight>>

toggle_status(id, next, rsp) ==
  /\ \/ /\ ~ login_required
        /\ rsp = Redirect("login")
        /\ UNCHANGED <<withdrawals, audit, now>>
     \/ /\ login_required
        /\ ~ \E w \in withdrawals : w.id = id
        /\ rsp = JsonFail
        /\ UNCHANGED <<withdrawals, audit, now>>
     \/ /\ login_required
        /\ \E obj \in withdrawals :
             /\ obj.id = id
             /\ withdrawals' = (withdrawals \ {obj})
                                 \cup {StatusUpdate(obj, next, session.email, now + 1)}
        /\ audit' = Append(audit, AuditLog(session.email, "status_update",
                                           <<"withdrawal", id>>, <<"to", next>>))
        /\ now' = now + 1
        /\ rsp = JsonStatus(next)
  /\ UNCHANGED <<users, archive, session, inflight>>

(* ---------------------------- bulk_delete ------------------------------ *)
\* re.findall(r"\d+", ids): the maximal runs of digits, each read as an int.
RECURSIVE FindAllInts(_, _)
FindAllInts(t, run) ==
  IF t = <<>> THEN (IF run = <<>> THEN <<>> ELSE <<DigitsValue(run)>>)
  ELSE IF Head(t) \in Digits THEN FindAllInts(Tail(t), Append(run, Head(t)))
  ELSE (IF run = <<>> THEN <<>> ELSE <<DigitsValue(run)>>) \o FindAllInts(Tail(t), <<>>)

IdList(ids) == FindAllInts(ids, <<>>)

Range(f) == {f[i] : i \in DOMAIN f}

\* The rows of a set, in id order (the order the query returns them in).
RECURSIVE SortById(_)
SortById(rows) ==
  IF rows = {} THEN <<>>
  ELSE LET r == CHOOSE x \in rows : \A y \in rows : x.id <= y.id
       IN  <<r>> \o SortById(rows \ {r})

\* ArchivedWithdrawal(original_id=r.id, ...): the full copy of a row.
ArchivedWithdrawal(r, t, email) ==
  [original_id |-> r.id,
   company |-> r.company, no |-> r.no, applied_at |-> r.applied_at,
   amount |-> r.amount, status |-> r.status,
   created_at |-> r.created_at, updated_at |-> r.updated_at,
   last_changed_by |-> r.last_changed_by, last_changed_at |-> r.last_changed_at,
   deleted_at |-> t, deleted_by |-> email]

ArchiveRows(rows, t, email) ==
  LET sorted == SortById(rows)
  IN  [i \in 1..Len(sorted) |-> ArchivedWithdrawal(sorted[i], t, email)]

\* DELETE FROM withdrawals WHERE id = ?, once per loaded row; a row that is
\* no longer there makes the ORM warn, not fail.
DeleteRows(table, rows) == {w \in table : w.id \notin {r.id : r \in rows}}

\* bulk_delete, up to the query that loads the rows.
bulk_delete(ids, rsp) ==
  /\ \/ /\ ~ login_required
        /\ rsp = Redirect("login")
        /\ UNCHANGED <<inflight, now>>
     \/ /\ login_required
        /\ ~ require_role
        /\ rsp = Forbidden
        /\ UNCHANGED <<inflight, now>>
     \/ /\ login_required
        /\ require_role
        /\ IdList(ids) = <<>>
        /\ rsp = JsonNoIds
        /\ UNCHANGED <<inflight, now>>
     \/ /\ login_required
        /\ require_role
        /\ IdList(ids) # <<>>
        /\ rsp = Pending
        /\ Begin([op |-> "bulk_delete", email |-> session.email, id_list |-> IdList(ids),
                  rows |-> {w \in withdrawals : w.id \in Range(IdList(ids))},
                  at |-> now + 1])
        /\ now' = now + 1
  /\ UNCHANGED <<users, withdrawals, archive, audit, session>>

\* bulk_delete, the flush and commit: the INSERTs of the copies, the DELETEs
\* and the audit entry, in one transaction.
bulk_delete_commit(r, rsp) ==
  /\ InFlight(r)
  /\ r.op = "bulk_delete"
  /\ archive' = archive \o ArchiveRows(r.rows, r.at, r.email)
  /\ withdrawals' = DeleteRows(withdrawals, r.rows)
  /\ audit' = Append(audit, AuditLog(r.email, "delete",
                                     <<"withdrawal", Len(r.id_list)>>, <<"ids", r.id_list>>))
  /\ rsp = JsonDeleted(Len(r.id_list))
  /\ End(r)
  /\ UNCHANGED <<users, session, now>>

(* ------------------------------ upload --------------------------------- *)
\* A CSV data row, by header: company is the column '会社', client the
\* column 'クライアント', no_dot 'No.', no 'No', applied_at '申請日時',
\* amount '金額', status 'ステータス'.  The other text columns are read as
\* company is, and '手数料' as amount is.
CsvRow(company, client, no_dot, no, applied_at, amount, status) ==
  [company |-> company, client |-> client, no_dot |-> no_dot, no |-> no,
   applied_at |-> applied_at, amount |-> amount, status |-> status]

RowA == CsvRow(<<"acme">>, <<>>, <<"n1">>, <<>>, <<"2024-01-05">>, <<"1", ",", "0">>, <<>>)
RowB == CsvRow(<<>>, <<"beta", " ">>, <<>>, <<" ", "n2">>, <<"10:30">>, <<"x">>, Kanryo)
RowA2 == CsvRow(<<"acme", " ">>, <<"beta">>, <<"n1">>, <<"n2">>, <<"?">>, <<"7">>, Horyu)
RowBlank == CsvRow(<<>>, <<" ">>, <<>>, <<>>, <<>>, <<>>, <<>>)

\* The uploaded files, as the rows csv.DictReader yields.
Files == { <<RowA, RowB>>, <<RowBlank, RowA2>>, <<RowA2, RowA>> }

\* a or b, on strings
Or(a, b) == IF a # <<>> THEN a ELSE b

\* all(not str(v or "").strip() for v in row.values())
IsBlank(row) ==
  /\ Strip(row.company) = <<>>
  /\ Strip(row.client) = <<>>
  /\ Strip(row.no_dot) = <<>>
  /\ Strip(row.no) = <<>>
  /\ Strip(row.applied_at) = <<>>
  /\ Strip(row.amount) = <<>>
  /\ Strip(row.status) = <<>>

MaxIdOf(table) == IF table = {} THEN 0 ELSE CHOOSE m \in {w.id : w \in table} : \A w \in table : w.id <= m

\* The id an INSERT gives a new row.  The engine is SQLite unless DATABASE_URL
\* says otherwise, and an INTEGER PRIMARY KEY of SQLite is one more than the
\* largest id in the table.
NewId(table) == MaxIdOf(table) + 1

\* Withdrawal(no=no_), as inserted at the next flush.
NewWithdrawal(id, no_, t) ==
  [id |-> id, no |-> no_, company |-> NullText, applied_at |-> NullDate,
   amount |-> Null, status |-> NullText,
   created_at |-> t, updated_at |-> t, last_changed_by |-> NullText, last_changed_at |-> Null]

\* The assignments of upload to the object of one row.
RowAssign(obj, row, t) ==
  [obj EXCEPT !.company = Strip(Or(row.company, row.client)),
              !.applied_at = parse_dt(row.applied_at, t),
              !.amount = parse_float(row.amount),
              !.status = Strip(row.status),
              !.updated_at = t]

\* One row of the loop of upload, on the table as the session sees it
\* (the query flushes the rows added before it).
UpsertRow(table, row, t) ==
  IF IsBlank(row) THEN table
  ELSE LET no_ == Strip(Or(row.no_dot, row.no))
           same == {w \in table : w.no = no_}
       IN  IF same # {}
           THEN LET obj == CHOOSE w \in same : \A v \in same : w.id <= v.id
                IN  (table \ {obj}) \cup {RowAssign(obj, row, t)}
           ELSE table \cup {RowAssign(NewWithdrawal(NewId(table), no_, t), row, t)}

RECURSIVE UpsertRows(_, _, _)
UpsertRows(table, file, t) ==
  IF file = <<>> THEN table ELSE UpsertRows(UpsertRow(table, Head(file), t), Tail(file), t)

\* An upload behind require_role("admin"), which the handler is not.
admin_upload(file, rsp) ==
  /\ \/ /\ ~ login_required
        /\ rsp = Redirect("login")
        /\ UNCHANGED <<withdrawals, audit, now>>
     \/ /\ login_required
        /\ ~ require_role
        /\ rsp = Forbidden
        /\ UNCHANGED <<withdrawals, audit, now>>
     \/ /\ login_required
        /\ require_role
        /\ rsp = Redirect("index")
        /\ withdrawals' = UpsertRows(withdrawals, file, now + 1)
        /\ audit' = Append(audit, AuditLog(session.email, "upload", <<"csv">>, NullText))
        /\ now' = now + 1
  /\ UNCHANGED <<users, archive, session, inflight>>

upload(file, rsp) ==
  /\ \/ /\ ~ login_required
        /\ rsp = Redirect("login")
        /\ UNCHANGED <<withdrawals, audit, now>>
     \/ /\ login_required
        /\ rsp = Redirect("index")
        /\ withdrawals' = UpsertRows(withdrawals, file, now + 1)
        /\ audit' = Append(audit, AuditLog(session.email, "upload", <<"csv">>, NullText))
        /\ now' = now + 1
  /\ UNCHANGED <<users, archive, session, inflight>>

(* --------------------------- user management --------------------------- *)
\* users_create, up to the commit inside User.create.
users_create(raw, pw, role, rsp) ==
  /\ \/ /\ ~ login_required
        /\ rsp = Redirect("login")
        /\ UNCHANGED <<users, inflight, now>>
     \/ /\ login_required
        /\ ~ require_role
        /\ rsp = Forbidden
        /\ UNCHANGED <<users, inflight, now>>
     \/ /\ login_required
        /\ require_role
        /\ EmailTaken(raw)
        /\ rsp = ServerError
        /\ UNCHANGED <<users, inflight, now>>
     \/ /\ login_required
        /\ require_role
        /\ ~ EmailTaken(raw)
        /\ users' = UserCreate(users, raw, pw, role)
        /\ rsp = Pending
        /\ Begin([op |-> "users_create", email |-> session.email,
                  target |-> NormalizeEmail(raw)])
        /\ now' = now + 1
  /\ UNCHANGED <<withdrawals, archive, audit, session>>

\* users_create, the audit entry and its own commit.
users_create_audit(r, rsp) ==
  /\ InFlight(r)
  /\ r.op = "users_create"
  /\ audit' = Append(audit, AuditLog(r.email, "create_user", r.target, NullText))
  /\ rsp = Redirect("users_page")
  /\ End(r)
  /\ UNCHANGED <<users, withdrawals, archive, session, now>>

users_role(id, role, rsp) ==
  /\ \/ /\ ~ login_required
        /\ rsp = Redirect("login")
        /\ UNCHANGED <<users, audit, now>>
     \/ /\ login_required
        /\ ~ require_role
        /\ rsp = Forbidden
        /\ UNCHANGED <<users, audit, now>>
     \/ /\ login_required
        /\ require_role
        /\ ~ \E u \in users : u.id = id
        /\ rsp = Redirect("users_page")
        /\ UNCHANGED <<users, audit, now>>
     \/ /\ login_required
        /\ require_role
        /\ \E u \in users :
             /\ u.id = id
             /\ users' = (users \ {u}) \cup {[u EXCEPT !.role = role]}
             /\ audit' = Append(audit, AuditLog(session.email, "role_change",
                                                u.email, <<"to", role>>))
        /\ now' = now + 1
        /\ rsp = Redirect("users_page")
  /\ UNCHANGED <<withdrawals, archive, session, inflight>>

users_resetpw(id, pw, rsp) ==
  /\ \/ /\ ~ login_required
        /\ rsp = Redirect("login")
        /\ UNCHANGED <<users, audit, now>>
     \/ /\ login_required
        /\ ~ require_role
        /\ rsp = Forbidden
        /\ UNCHANGED <<users, audit, now>>
     \/ /\ login_required
        /\ require_role
        /\ ~ \E u \in users : u.id = id
        /\ rsp = Redirect("users_page")
        /\ UNCHANGED <<users, audit, now>>
     \/ /\ login_required
        /\ require_role
        /\ \E u \in users :
             /\ u.id = id
             /\ users' = (users \ {u})
                           \cup {[u EXCEPT !.password_hash = generate_password_hash(pw)]}
             /\ audit' = Append(audit, AuditLog(session.email, "reset_pw",
                                                u.email, NullText))
        /\ now' = now + 1
        /\ rsp = Redirect("users_page")
  /\ UNCHANGED <<withdrawals, archive, session, inflight>>

(* --------------------------- the environment --------------------------- *)
\* The value of the form field "ids" of /bulk_delete.
IdsTexts ==
  { <<>>, <<"x">>, <<"1">>, <<"x", "1", ",", "1">>, <<"1", ",", "2">> }

Ids == 1..MaxId

Requests == BagToSet(inflight)

\* The responses each handler can send.
Guarded(own) == {Redirect("login")} \cup own
AdminOnly(own) == Guarded({Forbidden} \cup own)
Responses(handler) ==
  CASE handler = "login" -> {Redirect("index"), Page("login")}
    [] handler = "logout" -> {Redirect("login")}
    [] handler = "setup" -> {Redirect("login"), Page("setup"), Pending}
    [] handler = "setup_create" -> {Redirect("login"), ServerError}
    [] handler = "index" -> Guarded({Page("index")})
    [] handler = "export_csv" -> Guarded({Page("withdrawals.csv")})
    [] handler = "users_page" -> AdminOnly({Page("users")})
    [] handler = "toggle_status" -> Guarded({JsonFail} \cup {JsonStatus(n) : n \in NextValues})
    [] handler = "bulk_delete" -> AdminOnly({JsonNoIds, Pending})
    [] handler = "bulk_delete_commit" -> {JsonDeleted(Len(IdList(ids))) : ids \in IdsTexts}
    [] handler = "upload" -> Guarded({Redirect("index")})
    [] handler = "users_create" -> AdminOnly({ServerError, Pending})
    [] handler = "users_create_audit" -> {Redirect("users_page")}
    [] handler = "users_role" -> AdminOnly({Redirect("users_page")})
    [] handler = "users_resetpw" -> AdminOnly({Redirect("users_page")})

\* The server takes another request that stays in flight.
Accepts == BagCardinality(inflight) < MaxInFlight

\* The clock has not run out.
InTime == now < MaxTime

Next ==
  \/ \E raw \in RawEmails, pw \in Passwords, rsp \in Responses("login") : login(raw, pw, rsp)
  \/ \E rsp \in Responses("logout") : logout(rsp)
  \/ \E method \in {"GET", "POST"}, raw \in RawEmails, pw \in NewPasswords,
          rsp \in Responses("setup") :
       Accepts /\ setup(method, raw, pw, rsp)
  \/ \E r \in Requests, rsp \in Responses("setup_create") : setup_create(r, rsp)
  \/ \E rsp \in Responses("index") : index(rsp)
  \/ \E rsp \in Responses("export_csv") : export_csv(rsp)
  \/ \E rsp \in Responses("users_page") : users_page(rsp)
  \/ \E id \in Ids, next \in NextValues, rsp \in Responses("toggle_status") :
       InTime /\ toggle_status(id, next, rsp)
  \/ \E ids \in IdsTexts, rsp \in Responses("bulk_delete") :
       InTime /\ Accepts /\ bulk_delete(ids, rsp)
  \/ \E r \in Requests, rsp \in Responses("bulk_delete_commit") : bulk_delete_commit(r, rsp)
  \/ \E file \in Files, rsp \in Responses("upload") : InTime /\ upload(file, rsp)
  \/ \E raw \in RawEmails, pw \in NewPasswords, role \in Roles,
          rsp \in Responses("users_create") :
       InTime /\ Accepts /\ users_create(raw, pw, role, rsp)
  \/ \E r \in Requests, rsp \in Responses("users_create_audit") : users_create_audit(r, rsp)
  \/ \E id \in Ids, role \in Roles, rsp \in Responses("users_role") :
       InTime /\ users_role(id, role, rsp)
  \/ \E id \in Ids, pw \in ResetPasswords, rsp \in Responses("users_resetpw") :
       InTime /\ users_resetpw(id, pw, rsp)

Spec == Init /\ [][Next]_vars

(* One administrator works alone, from several windows: no second account   *)
(* and no user management, and the clock runs one request longer.           *)
AdminEmail == <<"b@x">>
AdminPassword == "pw1"
InAdminTime == now < MaxAdminTime

NextAdmin ==
  \/ \E rsp \in Responses("setup") : Accepts /\ setup("POST", AdminEmail, AdminPassword, rsp)
  \/ \E r \in Requests, rsp \in Responses("setup_create") : setup_create(r, rsp)
  \/ \E rsp \in Responses("login") : login(AdminEmail, AdminPassword, rsp)
  \/ \E id \in Ids, next \in NextValues, rsp \in Responses("toggle_status") :
       InAdminTime /\ toggle_status(id, next, rsp)
  \/ \E ids \in IdsTexts, rsp \in Responses("bulk_delete") :
       InAdminTime /\ Accepts /\ bulk_delete(ids, rsp)
  \/ \E r \in Requests, rsp \in Responses("bulk_delete_commit") : bulk_delete_commit(r, rsp)
  \/ \E file \in Files, rsp \in Responses("upload") : InAdminTime /\ upload(file, rsp)

SpecAdmin == Init /\ [][NextAdmin]_vars

(* ------------------------------ claims --------------------------------- *)
\* C1: in every reachable state the status of every withdrawal record is one
\* of three values: unset (empty), completed ('完了') or returned ('差し戻し').
C1_StatusIsOneOfThree ==
  \A w \in withdrawals : w.status \in {Unset, Kanryo, Sashimodoshi}

\* A record and an archive row are copies of the same record: ids are given
\* again after a delete, the time of creation tells the records apart.
SameRecord(a, w) == a.original_id = w.id /\ a.created_at = w.created_at

ArchiveOf(w) == {i \in DOMAIN archive : SameRecord(archive[i], w)}

\* C2: bulk delete is a copy-then-delete in one transaction: in every state,
\* a record a bulk_delete call names is either in the withdrawals table with
\* no archive copy, or absent from it with exactly one archive row; it is
\* never in both tables, never in neither, and never archived twice.
C2_CopyThenDelete ==
  /\ \A w \in withdrawals : ArchiveOf(w) = {}
  /\ \A r \in Requests : r.op = "bulk_delete" =>
       \A w \in r.rows :
         (\A v \in withdrawals : v.id # w.id \/ v.created_at # w.created_at)
           => ArchiveOf(w) # {}
  /\ \A i \in DOMAIN archive :
       ArchiveOf([id |-> archive[i].original_id, created_at |-> archive[i].created_at]) = {i}

\* The archive row a is the full copy of the record w.
FullCopy(a, w) ==
  /\ a.original_id = w.id
  /\ a.company = w.company
  /\ a.no = w.no
  /\ a.applied_at = w.applied_at
  /\ a.amount = w.amount
  /\ a.status = w.status
  /\ a.created_at = w.created_at
  /\ a.updated_at = w.updated_at
  /\ a.last_changed_by = w.last_changed_by
  /\ a.last_changed_at = w.last_changed_at

\* The archive rows a step adds.
Archived == {archive'[i] : i \in (DOMAIN archive') \ (DOMAIN archive)}

\* The records a step removes from the withdrawals table.
Removed == {w \in withdrawals : \A v \in withdrawals' : v.id # w.id}

KeepsArchive ==
  /\ Len(archive') >= Len(archive)
  /\ SubSeq(archive', 1, Len(archive)) = archive

\* C3: every step that removes a withdrawal record adds an archive row that
\* is the full copy of the record's committed values at that moment, with
\* deleted_by the e-mail of the administrator whose request removes it; and
\* no step removes or modifies an archive row.
C3_ArchiveRetains ==
  [][/\ KeepsArchive
     /\ \A w \in Removed :
          \E a \in Archived, r \in Requests :
            /\ r.op = "bulk_delete"
            /\ r \notin BagToSet(inflight')
            /\ FullCopy(a, w)
            /\ a.deleted_by = r.email]_vars

\* C4: a successful status update sets the record's status to one of two
\* values, completed or returned, stamps the row with the time of the change
\* (last_changed_at, updated_at) and the e-mail of the logged-in user
\* (last_changed_by), and modifies no other withdrawal record.
C4_StatusUpdate ==
  [][\A id \in Ids, next \in NextValues :
       toggle_status(id, next, JsonStatus(next)) =>
         /\ \E w \in withdrawals' :
              /\ w.id = id
              /\ w.status \in {Kanryo, Sashimodoshi}
              /\ w.last_changed_at = now'
              /\ w.updated_at = now'
              /\ w.last_changed_by = session.email
         /\ \A w \in withdrawals : w.id # id => w \in withdrawals'
         /\ \A w \in withdrawals' : w.id # id => w \in withdrawals]_vars

\* The audit entry of a status update of record id to next.
StatusEntry(id, email, next) ==
  AuditLog(email, "status_update", <<"withdrawal", id>>, <<"to", next>>)

\* C5: status updates are unguarded: for an existing record, whatever its
\* status, toggle_status is enabled and answers ok for every requested value,
\* and the record's status afterwards is the requested value.
C5_Unguarded ==
  login_required =>
    \A w \in withdrawals, next \in NextValues :
      /\ ENABLED toggle_status(w.id, next, JsonStatus(next))
      /\ \A rsp \in Responses("toggle_status") :
           ~ ENABLED (/\ toggle_status(w.id, next, rsp)
                      /\ ~ /\ rsp = JsonStatus(next)
                           /\ \E v \in withdrawals' : v.id = w.id /\ v.status = next)

\* A completed record has been changed to returned: two status updates of
\* one record follow each other in the history, and the record is returned.
C5_CompletedToReturned ==
  \E w \in withdrawals, i \in DOMAIN audit :
    /\ i + 1 \in DOMAIN audit
    /\ audit[i] = StatusEntry(w.id, session.email, Kanryo)
    /\ audit[i + 1] = StatusEntry(w.id, session.email, Sashimodoshi)
    /\ w.status = Sashimodoshi
    /\ login_required

\* The request H of a handler gets the answer expected and no other, and
\* leaves the four tables as they are.
Refused(H(_), handler, expected) ==
  /\ ENABLED H(expected)
  /\ \A rsp \in Responses(handler) :
       ~ ENABLED (H(rsp) /\ (rsp # expected \/ tables' # tables))

\* Every request to bulk delete and to user management is Refused.
AdminRequestsRefused(expected) ==
  /\ \A ids \in IdsTexts :
       Refused(LAMBDA rsp : bulk_delete(ids, rsp), "bulk_delete", expected)
  /\ Refused(LAMBDA rsp : users_page(rsp), "users_page", expected)
  /\ \A raw \in RawEmails, pw \in NewPasswords, role \in Roles :
       Refused(LAMBDA rsp : users_create(raw, pw, role, rsp), "users_create", expected)
  /\ \A id \in Ids, role \in Roles :
       Refused(LAMBDA rsp : users_role(id, role, rsp), "users_role", expected)
  /\ \A id \in Ids, pw \in ResetPasswords :
       Refused(LAMBDA rsp : users_resetpw(id, pw, rsp), "users_resetpw", expected)

\* C6: bulk delete and user management (listing users, creating a user,
\* changing a role, resetting a password) are administrator-only: when the
\* role of the requesting session is not admin the request is answered 403
\* and the withdrawals, archive, users and audit-log tables are unchanged.
C6_AdminOnly ==
  (session # Anonymous /\ session.role # "admin") => AdminRequestsRefused(Forbidden)

\* A worker is logged in and there is something to delete and to manage.
C6_WorkerSession ==
  /\ session.role = "worker"
  /\ withdrawals # {}
  /\ \E u \in users : u.email = session.email /\ u.role = "worker"
  /\ \E u \in users : u.role = "admin"

\* C7: CSV import and export are an administrator's: an upload a logged-in
\* worker requests creates or modifies no withdrawal record, and a worker
\* cannot obtain the CSV export.
C7_AdminOnlyCsv ==
  session.role = "worker" =>
    /\ \A file \in Files, rsp \in Responses("upload") :
         ~ ENABLED (upload(file, rsp) /\ withdrawals' # withdrawals)
    /\ ~ ENABLED export_csv(Page("withdrawals.csv"))

\* The record numbers of the rows of a file that are not blank.
Numbers(file) ==
  {Strip(Or(file[i].no_dot, file[i].no)) : i \in {j \in DOMAIN file : ~ IsBlank(file[j])}}

\* C7, amended: CSV import and export ask for a login and for no role.  For
\* every logged-in session, a worker's included, upload is carried out (it
\* answers the redirect to the list, every row of the file that is not blank
\* is a record afterwards, and one 'upload' entry under the session's e-mail
\* is added to the audit log) and export_csv answers the CSV file.
C7_LoginOnlyCsv ==
  session # Anonymous =>
    /\ \A file \in Files :
         /\ ENABLED (/\ upload(file, Redirect("index"))
                     /\ \A n \in Numbers(file) : \E w \in withdrawals' : w.no = n
                     /\ audit' = Append(audit, AuditLog(session.email, "upload",
                                                        <<"csv">>, NullText)))
         /\ \A rsp \in Responses("upload") \ {Redirect("index")} :
              ~ ENABLED upload(file, rsp)
    /\ ENABLED export_csv(Page("withdrawals.csv"))
    /\ \A rsp \in Responses("export_csv") :
         ENABLED export_csv(rsp) => rsp = Page("withdrawals.csv")

\* A worker has uploaded a file: the last entry of the audit log is the
\* upload of the worker who is logged in.
C7_WorkerUploaded ==
  /\ session.role = "worker"
  /\ audit # <<>>
  /\ audit[Len(audit)] = AuditLog(session.email, "upload", <<"csv">>, NullText)
  /\ withdrawals # {}

\* C8: every operation other than login and setup asks for a session.  A
\* session is a stored user's, it begins only at a login whose e-mail is a
\* stored user's and whose password verifies against that user's hash, and
\* it ends at logout; with no session, every request to index, toggle_status,
\* bulk_delete, upload, export_csv and user management is redirected to the
\* login page and changes no table.
C8_LoginRequired ==
  /\ session # Anonymous => \E u \in users : u.email = session.email
  /\ \A raw \in RawEmails, pw \in Passwords, rsp \in Responses("login") :
       ~ ENABLED (/\ login(raw, pw, rsp)
                  /\ session' # session
                  /\ ~ \E u \in users :
                         /\ u.email = NormalizeEmail(raw)
                         /\ u.password_hash = generate_password_hash(pw)
                         /\ session' = [email |-> u.email, role |-> u.role])
  /\ \A rsp \in Responses("logout") : ~ ENABLED (logout(rsp) /\ session' # Anonymous)
  /\ session = Anonymous =>
       /\ AdminRequestsRefused(Redirect("login"))
       /\ Refused(LAMBDA rsp : index(rsp), "index", Redirect("login"))
       /\ Refused(LAMBDA rsp : export_csv(rsp), "export_csv", Redirect("login"))
       /\ \A id \in Ids, next \in NextValues :
            Refused(LAMBDA rsp : toggle_status(id, next, rsp), "toggle_status",
                    Redirect("login"))
       /\ \A file \in Files :
            Refused(LAMBDA rsp : upload(file, rsp), "upload", Redirect("login"))

\* Nobody is logged in, after somebody was: there are users, records to
\* change and an audit log.
C8_LoggedOut ==
  /\ session = Anonymous
  /\ users # {}
  /\ withdrawals # {}
  /\ audit # <<>>

\* The step is the INSERT of setup.
SetupStep == \E r \in Requests, rsp \in Responses("setup_create") : setup_create(r, rsp)

\* The users who may be acting in a step: the session's, and those of the
\* requests in flight.
Actors == {session.email} \cup {r.email : r \in {q \in Requests : q.op # "setup"}}

\* The action names that match what a step changes.
Matching ==
  IF archive' # archive \/ Removed # {} THEN {"delete"}
  ELSE IF withdrawals' # withdrawals THEN {"status_update", "upload"}
  ELSE IF Cardinality(users') > Cardinality(users) THEN {"create_user"}
  ELSE IF users' # users THEN {"role_change", "reset_pw"}
  ELSE {}

KeepsAudit ==
  /\ Len(audit') >= Len(audit)
  /\ SubSeq(audit', 1, Len(audit)) = audit

\* C9: every commit of a status update, CSV upload, bulk delete, user
\* creation, role change or password reset that changes a table adds, in the
\* same step, exactly one audit entry with the acting user's e-mail and the
\* matching action name; and no step removes or alters an audit entry.
C9_AuditedAtomically ==
  [][/\ KeepsAudit
     /\ Len(audit') <= Len(audit) + 1
     /\ (Matching # {} /\ ~ SetupStep) =>
          /\ Len(audit') = Len(audit) + 1
          /\ audit'[Len(audit')].action \in Matching
          /\ audit'[Len(audit')].user_email \in Actors]_vars

\* C10: setup creates the first administrator and only that one: the INSERT
\* of a setup request adds a user only to an empty users table, and once a
\* user exists a setup request is redirected to login and changes nothing.
C10_SetupOnce ==
  [][/\ \A r \in Requests, rsp \in Responses("setup_create") :
          (setup_create(r, rsp) /\ users' # users) => users = {}
     /\ \A method \in {"GET", "POST"}, raw \in RawEmails, pw \in NewPasswords,
           rsp \in Responses("setup") :
          (setup(method, raw, pw, rsp) /\ users # {}) =>
             (rsp = Redirect("login") /\ UNCHANGED vars)]_vars

\* The last row of a file with the record number n.
LastRow(file, n) ==
  LET at == {i \in DOMAIN file : ~ IsBlank(file[i]) /\ Strip(Or(file[i].no_dot, file[i].no)) = n}
  IN  file[CHOOSE i \in at : \A j \in at : j <= i]

\* A table with the time of the last update left out.
ApartFromUpdatedAt(table) == {[w EXCEPT !.updated_at = Null] : w \in table}

\* The step has done to the record number n what its last row in file says:
\* the record that had the number is overwritten, or one record is created.
UpsertedNumber(file, n) ==
  LET before == {w \in withdrawals : w.no = n}
      after == {w \in withdrawals' : w.no = n}
      row == LastRow(file, n)
  IN  /\ Cardinality(after) = 1
      /\ \A v \in after :
           /\ v.company = Strip(Or(row.company, row.client))
           /\ v.applied_at = parse_dt(row.applied_at, now')
           /\ v.amount = parse_float(row.amount)
           /\ v.status = Strip(row.status)
           /\ v.updated_at = now'
           /\ \/ /\ before = {}
                 /\ v.id \notin {w.id : w \in withdrawals}
                 /\ v.created_at = now'
                 /\ v.last_changed_by = NullText
                 /\ v.last_changed_at = Null
              \/ \E w \in before :
                   /\ v.id = w.id
                   /\ v.created_at = w.created_at
                   /\ v.last_changed_by = w.last_changed_by
                   /\ v.last_changed_at = w.last_changed_at

\* C11: CSV import is an upsert keyed on the record number: an upload
\* overwrites, for each row that is not blank, the record with the row's
\* number, or creates exactly one record when there is none; blank rows are
\* skipped and the other records stay; and uploading the same file again
\* yields the same records (same count, same values apart from updated_at),
\* also when the file has the same number on several rows.
C11_UploadUpserts ==
  [][\A file \in Files :
       upload(file, Redirect("index")) =>
         /\ \A n \in Numbers(file) : UpsertedNumber(file, n)
         /\ {w \in withdrawals' : w.no \notin Numbers(file)}
              = {w \in withdrawals : w.no \notin Numbers(file)}
         /\ ApartFromUpdatedAt(UpsertRows(withdrawals', file, now' + 1))
              = ApartFromUpdatedAt(withdrawals')]_vars

\* C12: failed requests leave the data untouched: for a logged-in user,
\* toggle_status with an id that matches no withdrawal record answers
\* ok=false, and for an administrator bulk_delete with a text that holds no id
\* answers ok=false with the message 'no ids'; neither has another answer, and
\* neither creates, modifies or removes a withdrawal record, an archive row or
\* an audit-log entry.
C12_FailedRequests ==
  /\ session # Anonymous =>
        \A id \in Ids, next \in NextValues :
          (\A w \in withdrawals : w.id # id) =>
            Refused(LAMBDA rsp : toggle_status(id, next, rsp), "toggle_status", JsonFail)
  /\ session.role = "admin" =>
        \A ids \in IdsTexts :
          (\A i \in DOMAIN ids : ids[i] \notin Digits) =>
            Refused(LAMBDA rsp : bulk_delete(ids, rsp), "bulk_delete", JsonNoIds)

\* An administrator is logged in, there are a withdrawal record and an audit
\* entry to leave alone, and an id that matches no record.
C12_NoSuchRecord ==
  /\ session.role = "admin"
  /\ withdrawals # {}
  /\ audit # <<>>
  /\ \E id \in Ids : \A w \in withdrawals : w.id # id
  /\ inflight = EmptyBag

\* C13: the 'deleted' count a successful bulk_delete returns is the number of
\* withdrawal records that call removes from the withdrawals table, and the
\* number of archive rows it adds, whatever the submitted ids: with an id
\* twice, and with ids that match no record.
C13_DeletedCount ==
  [][\A r \in Requests, rsp \in Responses("bulk_delete_commit") :
       bulk_delete_commit(r, rsp) =>
         /\ rsp = JsonDeleted(Cardinality(withdrawals \ withdrawals'))
         /\ rsp = JsonDeleted(Len(archive') - Len(archive))]_vars

====
